---- MODULE Spec2Model ----
(***************************************************************************)
(* Lead / contact services of bintech-crm: the record store, the Redis     *)
(* cache, and the service handlers (create, get, list, update, delete,     *)
(* mergeDuplicates) as processes whose steps are the handlers' awaits.     *)
(*                                                                         *)
(* One behaviour runs over one entity type (kind): the Lead and Contact    *)
(* collections and their cache key prefixes are disjoint, and the two      *)
(* services never touch each other's data.                                 *)
(*                                                                         *)
(* Records are modelled at the level the services and the Joi schemas use  *)
(* them: tags is a list of strings, customFields a string-keyed map, notes *)
(* a text.  A text is a sequence of tokens, so that concatenation is \o    *)
(* and the empty text is << >>; an absent text or map is modelled as the   *)
(* empty one (both are falsy / spread to nothing in the code).             *)
(***************************************************************************)
EXTENDS Integers, Sequences, FiniteSets, TLC

\* ------------------------------------------------------------------ bounds
MaxId == 3          \* record ids 1..MaxId
MaxDups == 2        \* longest duplicateIds list of a merge call
MaxConcDups == 1    \* the same, for merges interleaved with other handlers
NumProcs == 2       \* concurrently running request handlers
MaxCalls == 3       \* service calls started in one behaviour of Spec
MaxClients == 2     \* WebSocket clients of SyncService

Ids == 1..MaxId
Procs == 1..NumProcs

\* --------------------------------------------------------------- constants
DEFAULT_PAGE == 1
DEFAULT_LIMIT == 10
NOT_FOUND == 404
CONFLICT == 409
INTERNAL_SERVER_ERROR == 500
OK == 200
BAD_REQUEST == 400
MAX_LIMIT == 100
MIN_PROBABILITY == 0
MAX_PROBABILITY == 100

SEP == "\n---\n"

NULL == [isNull |-> TRUE]

LeadStageEnum == {"New", "Contacted", "Qualified", "Proposal", "Negotiation", "Won", "Lost"}

VARIABLES
  kind,     \* "lead" or "contact": the service / collection of this behaviour
  store,    \* the collection: [present ids -> document]
  cache,    \* Redis: [present keys -> JSON payload]
  nextId,   \* next _id the store hands out
  ver,      \* number of store writes so far (stamps list payloads)
  pc,       \* per handler: where it is suspended
  loc,      \* per handler: its local variables
  calls,    \* service calls started so far
  retVer,   \* newest store write whose service call has returned
  mustVer,  \* per list key: newest write a completed list request followed
  clients,  \* SyncService.clients: [connected client ids -> subscriptions]
  channels  \* SyncService.channels: Redis channels subscribed to

vars == <<kind, store, cache, nextId, ver, pc, loc, calls, retVer, mustVer,
          clients, channels>>

\* ----------------------------------------------------------------- helpers
Max(a, b) == IF a > b THEN a ELSE b

ToSet(s) == {s[i] : i \in 1..Len(s)}

NoRepeat(s) == \A i, j \in 1..Len(s) : i # j => s[i] # s[j]

\* [...new Set(s)]: first occurrences, in insertion order
RECURSIVE Dedup(_)
Dedup(s) ==
  IF s = << >> THEN << >>
  ELSE LET front == Dedup(SubSeq(s, 1, Len(s) - 1))
           x == s[Len(s)]
       IN IF x \in ToSet(front) THEN front ELSE Append(front, x)

\* { ...a, ...b }: keys of both, b's value wins
Spread(a, b) ==
  [k \in (DOMAIN a) \cup (DOMAIN b) |-> IF k \in DOMAIN b THEN b[k] ELSE a[k]]

EmptyCF == [k \in {} |-> ""]

SeqsUpTo(S, n) == UNION {[1..m -> S] : m \in 0..n}

\* ------------------------------------------------------------- lead model
\* pre('save') hook of the lead schema
StageProbabilities(stage) ==
  CASE stage = "New" -> 10
    [] stage = "Contacted" -> 30
    [] stage = "Qualified" -> 50
    [] stage = "Proposal" -> 70
    [] stage = "Negotiation" -> 90
    [] stage = "Won" -> 100
    [] stage = "Lost" -> 0
    [] OTHER -> 0

\* this.probability = stageProbabilities[this.stage] || this.probability
LeadPreSave(doc) ==
  [doc EXCEPT !.probability =
      IF StageProbabilities(doc.stage) # 0
        THEN StageProbabilities(doc.stage)
        ELSE doc.probability]

\* document.save(): run the schema's pre-save hook, the result is written
PreSave(doc) == IF kind = "lead" THEN LeadPreSave(doc) ELSE doc

\* ------------------------------------------------------------- merge fold
\* mutant: the duplicate's tags replace the primary's
MergeTags_DuplicateOnly(primary, duplicate) == Dedup(duplicate.tags)

MergeTags(primary, duplicate) == Dedup(primary.tags \o duplicate.tags)

\* mutant: spread order swapped, the duplicate's keys win
MergeCustomFields_DuplicateWins(primary, duplicate) ==
  Spread(primary.customFields, duplicate.customFields)

MergeCustomFields(primary, duplicate) ==
  Spread(duplicate.customFields, primary.customFields)

\* mutant: the duplicate's notes replace the primary's
MergeNotes_Overwrite(primary, duplicate) ==
  IF duplicate.notes # << >> THEN duplicate.notes ELSE primary.notes

MergeNotes(primary, duplicate) ==
  IF duplicate.notes # << >>
    THEN IF primary.notes # << >>
           THEN primary.notes \o <<SEP>> \o duplicate.notes
           ELSE duplicate.notes
    ELSE primary.notes

\* body of duplicates.forEach in ContactService.mergeDuplicates
ContactMergeOne(primary, duplicate) ==
  IF duplicate = NULL THEN primary
  ELSE [primary EXCEPT
          !.tags = MergeTags(primary, duplicate),
          !.customFields = MergeCustomFields(primary, duplicate),
          !.notes = MergeNotes(primary, duplicate)]

\* body of duplicates.forEach in LeadService.mergeDuplicates
LeadMergeOne(primary, duplicate) ==
  IF duplicate = NULL THEN primary
  ELSE [primary EXCEPT
          !.amount = IF duplicate.amount > primary.amount
                       THEN duplicate.amount ELSE primary.amount,
          !.probability = IF duplicate.probability > primary.probability
                            THEN duplicate.probability ELSE primary.probability,
          !.tags = MergeTags(primary, duplicate),
          !.customFields = MergeCustomFields(primary, duplicate),
          !.notes = MergeNotes(primary, duplicate)]

MergeOne(primary, duplicate) ==
  IF kind = "lead" THEN LeadMergeOne(primary, duplicate)
                   ELSE ContactMergeOne(primary, duplicate)

\* mutant: the duplicates are folded right to left
RECURSIVE MergeFold_RightToLeft(_, _)
MergeFold_RightToLeft(primary, duplicates) ==
  IF duplicates = << >> THEN primary
  ELSE MergeFold_RightToLeft(MergeOne(primary, duplicates[Len(duplicates)]),
                             SubSeq(duplicates, 1, Len(duplicates) - 1))

\* duplicates.forEach(...): left to right over the looked-up documents
RECURSIVE MergeFold(_, _)
MergeFold(primary, duplicates) ==
  IF duplicates = << >> THEN primary
  ELSE MergeFold(MergeOne(primary, Head(duplicates)), Tail(duplicates))

\* Model.findById(id)
FindById(id) == IF id \in DOMAIN store THEN store[id] ELSE NULL

\* mutant: an unresolved duplicate fails the call as well
MergeFound_AllResolve(primary, duplicates) ==
  primary # NULL /\ \A n \in 1..Len(duplicates) : duplicates[n] # NULL

\* if (!primary) throw new AppError('Primary ... not found', 404)
MergeFound(primary, duplicates) == primary # NULL

\* document.save() of a loaded document: the paths that changed since it was
\* loaded (before -> after) are $set on the stored document
SaveDoc(st, id, before, after) ==
  [i \in DOMAIN st |->
     IF i = id
       THEN [f \in DOMAIN after |->
               IF after[f] # before[f] THEN after[f] ELSE st[i][f]]
       ELSE st[i]]

\* mutant: the filter is dropped, deleteMany({})
DeleteMany_NoFilter(st, ids) == [i \in {} |-> st[i]]

\* Model.deleteMany({ _id: { $in: ids } })
DeleteMany(st, ids) == [i \in (DOMAIN st) \ ToSet(ids) |-> st[i]]

\* ------------------------------------------------------------------ cache
\* `${CACHE_KEYS.LEAD_DETAILS}${id}` / `${CACHE_KEYS.CONTACT_DETAILS}${id}`
DetailKey(id) == <<"details", id>>

\* `${CACHE_KEYS.LEADS_LIST}:${page}:${limit}`
ListKey(page, limit) == <<"list", page, limit>>

\* mutant: the pattern of clearPattern matches no key
ListKeysIn_None(c) == {}

\* client.keys(CACHE_KEYS.LEADS_LIST + '*')
ListKeysIn(c) == {k \in DOMAIN c : k[1] = "list"}

\* client.del(keys)
CacheDel(c, keys) == [k \in (DOMAIN c) \ keys |-> c[k]]

\* client.set(key, JSON.stringify(value), { EX: ttl }); the entry records how
\* many service calls had started when it was written
CacheSet(c, key, value, at) ==
  [k \in (DOMAIN c) \cup {key} |->
     IF k = key THEN [value |-> value, at |-> at] ELSE c[k]]

\* Cache.clearPattern with both Redis commands succeeding
ClearPattern(c) ==
  IF ListKeysIn(c) # {} THEN CacheDel(c, ListKeysIn(c)) ELSE c

\* --------------------------------------------------------- list query
RECURSIVE SortDesc(_)
SortDesc(S) ==
  IF S = {} THEN << >>
  ELSE LET m == CHOOSE x \in S : \A y \in S : y <= x
       IN <<m>> \o SortDesc(S \ {m})

Min(a, b) == IF a < b THEN a ELSE b

\* mutant: the quotient is rounded down
CeilDiv_Floor(a, b) == a \div b

\* Math.ceil(total / limit)
CeilDiv(a, b) == (a + b - 1) \div b

\* the filters of a list query; "" stands for an absent (falsy) parameter
NoFilter == [assignedTo |-> "", search |-> ""]

FilterOf(query) == [assignedTo |-> query.assignedTo, search |-> query.search]

\* where('assignedTo').equals(...) and or([{name}, {email}, {company}]) of
\* the search term, both applied to the same query (ANDed); names and
\* companies are single tokens, which the term matches when it is that token,
\* and no term matches a numbered email address
Matches(doc, filter) ==
  /\ filter.assignedTo # "" => doc.assignedTo = filter.assignedTo
  /\ filter.search # "" =>
        (doc.name = filter.search \/ doc.company = filter.search)

\* find() with the filters, sort({createdAt: -1}).skip(skip).limit(limit) and
\* countDocuments of the same filters; _ids are handed out in creation order,
\* so createdAt order is _id order.  The payload records the filters and the
\* store version it was computed for.
ListResult(st, filter, page, limit, stamp) ==
  LET all == SortDesc({i \in DOMAIN st : Matches(st[i], filter)})
      skip == (page - 1) * limit
      total == Len(all)
      ids == SubSeq(all, skip + 1, Min(skip + limit, total))
  IN [items |-> [n \in 1..Len(ids) |-> [id |-> ids[n], doc |-> st[ids[n]]]],
      page |-> page,
      limit |-> limit,
      total |-> total,
      totalPages |-> CeilDiv(total, limit),
      filter |-> filter,
      ver |-> stamp]

\* ------------------------------------------------------- stored documents
\* A stored document.  email and phone are numbered addresses.  A contact has
\* no amount, stage or probability: its documents carry the fixed values
\* below, which no contact operation reads.
\* the user the i-th record is assigned to
Owner(i) == IF i % 2 = 1 THEN "u1" ELSE "u2"

Doc(i, amount, stage, probability, tags, customFields, notes) ==
  [email |-> i, phone |-> i, name |-> "n", company |-> "c",
   assignedTo |-> Owner(i),
   amount |-> amount, stage |-> stage, probability |-> probability,
   tags |-> tags, customFields |-> customFields, notes |-> notes]

TagSamples == {<<"x", "y">>, <<"y", "z">>, <<"x", "x">>}

CustomFieldSamples == {[a |-> "1"], [a |-> "2", b |-> "3"], [b |-> "4"]}

NoteSamples == {<< >>, <<"N1">>, <<"N2">>}

\* <<amount, stage, probability>>: a lead is saved with its stage's
\* probability, and updateLead can set any probability in [0, 100] afterwards
NumericSamples ==
  {<<50, "New", 10>>, <<80, "New", 50>>, <<50, "Lost", 50>>, <<80, "Lost", 0>>}

\* The documents a store is drawn from: all alike but for one group of fields
SliceDocs(slice, i) ==
  CASE slice = "tags" ->
         {Doc(i, 0, "New", 10, t, EmptyCF, << >>) : t \in TagSamples}
    [] slice = "customFields" ->
         {Doc(i, 0, "New", 10, << >>, c, << >>) : c \in CustomFieldSamples}
    [] slice = "notes" ->
         {Doc(i, 0, "New", 10, << >>, EmptyCF, n) : n \in NoteSamples}
    [] slice = "numeric" ->
         {Doc(i, q[1], q[2], q[3], << >>, EmptyCF, << >>) : q \in NumericSamples}

Slices(k) ==
  IF k = "lead" THEN {"tags", "customFields", "notes", "numeric"}
                ELSE {"tags", "customFields", "notes"}

\* raw query strings of the list requests; 0 stands for an absent parameter
Query(page, limit, assignedTo, search) ==
  [page |-> page, limit |-> limit, assignedTo |-> assignedTo, search |-> search]

QueryInputs == {Query(0, 0, "", ""), Query(2, 1, "", "")}

\* parseInt(query.page) || PAGINATION.DEFAULT_PAGE
PageOf(query) == IF query.page # 0 THEN query.page ELSE DEFAULT_PAGE

\* parseInt(query.limit) || PAGINATION.DEFAULT_LIMIT
LimitOf(query) == IF query.limit # 0 THEN query.limit ELSE DEFAULT_LIMIT

QueryKey(query) == ListKey(PageOf(query), LimitOf(query))

QueryKeys == {QueryKey(q) : q \in QueryInputs}

\* The cache after getById of every stored id and a list request per query
WarmCache(st) ==
  [k \in {DetailKey(i) : i \in DOMAIN st} \cup QueryKeys |->
     [value |-> IF k[1] = "details" THEN st[k[2]]
                                    ELSE ListResult(st, NoFilter, k[2], k[3], 0),
      at |-> 0]]

Idle == [op |-> "none"]

\* new Map(): no client is connected
NoClients == [c \in {} |-> {}]

\* ----------------------------------------------------- mergeDuplicates
\* The whole handler, run without another handler in between
MergeRun(p, primaryId, duplicateIds) ==
  /\ pc[p] = "idle"
  /\ calls' = calls + 1
  /\ pc' = [pc EXCEPT ![p] = "done"]
  /\ LET primary0 == FindById(primaryId)
         duplicates == [n \in 1..Len(duplicateIds) |-> FindById(duplicateIds[n])]
         call == [op |-> "merge", primaryId |-> primaryId,
                  duplicateIds |-> duplicateIds,
                  primary0 |-> primary0, duplicates |-> duplicates]
     IN IF ~MergeFound(primary0, duplicates)
          THEN /\ loc' = [loc EXCEPT ![p] =
                       call @@ [status |-> NOT_FOUND, primary |-> NULL]]
               /\ UNCHANGED <<store, cache, ver, retVer>>
          ELSE LET primary == PreSave(MergeFold(primary0, duplicates))
                   saved == SaveDoc(store, primaryId, primary0, primary)
                   dels == {DetailKey(primaryId)}
                             \cup {DetailKey(d) : d \in ToSet(duplicateIds)}
               IN /\ store' = DeleteMany(saved, duplicateIds)
                  /\ cache' = ClearPattern(CacheDel(cache, dels))
                  /\ ver' = ver + 2
                  /\ retVer' = ver + 2
                  /\ loc' = [loc EXCEPT ![p] =
                          call @@ [status |-> OK, primary |-> primary]]
  /\ UNCHANGED <<clients, channels, kind, nextId, mustVer>>

\* the one call of a behaviour of SpecMerge
MergeDuplicates(p, primaryId, duplicateIds) ==
  calls = 0 /\ MergeRun(p, primaryId, duplicateIds)

\* -------------------------------------------- specification of one merge
InitMerge ==
  /\ kind \in {"lead", "contact"}
  /\ \E slice \in Slices(kind), S \in SUBSET Ids :
       \E f \in [S -> UNION {SliceDocs(slice, i) : i \in S}] :
         /\ \A i \in S : f[i] \in SliceDocs(slice, i)
         /\ store = f
  /\ cache = WarmCache(store)
  /\ nextId = MaxId + 1
  /\ ver = 0
  /\ pc = [p \in Procs |-> "idle"]
  /\ loc = [p \in Procs |-> Idle]
  /\ calls = 0
  /\ retVer = 0
  /\ mustVer = [k \in QueryKeys |-> 0]
  /\ clients = NoClients
  /\ channels = {}

NextMerge ==
  \E primaryId \in Ids, duplicateIds \in SeqsUpTo(Ids, MaxDups) :
    MergeDuplicates(1, primaryId, duplicateIds)

SpecMerge == InitMerge /\ [][NextMerge]_vars

\* ================================================= interleaved handlers
\* Each handler runs up to its next await in one step.  A handler that has
\* returned stays "done" with its response in loc until it serves a new call.
Free(p) == pc[p] \in {"idle", "done"}

StartCall(p) == Free(p) /\ calls < MaxCalls /\ calls' = calls + 1

\* LeadService.calculateProbability: the table is keyed by LEAD_STAGES values
CalculateProbability(stage) ==
  LET t == CASE stage = "new" -> 20
             [] stage = "contacted" -> 40
             [] stage = "qualified" -> 60
             [] stage = "proposal" -> 80
             [] stage = "negotiation" -> 90
             [] stage = "won" -> 100
             [] stage = "lost" -> 0
             [] OTHER -> 0
  IN IF t # 0 THEN t ELSE 20

\* a request body of create; probability 0 stands for "not given" (falsy)
CreateInput(i, tags, notes) ==
  [email |-> i, phone |-> i, name |-> "n", company |-> "c",
   assignedTo |-> Owner(i), amount |-> 0,
   stage |-> "New", probability |-> 0, tags |-> tags,
   customFields |-> EmptyCF, notes |-> notes]

\* the two records created before the behaviour starts
Seeded == <<CreateInput(1, <<"x">>, << >>), CreateInput(2, <<"y">>, <<"N1">>)>>

\* request bodies of create: one clashing with a seeded record, one new
CreateInputs == {Seeded[1], CreateInput(3, <<"z">>, << >>)}

\* request bodies of update
UpdateInputs == {[email |-> 2], [notes |-> <<"N2">>]}

\* mutant: only the email is compared
ExistsWith_EmailOnly(st, data, except) ==
  \E i \in (DOMAIN st) \ except :
    "email" \in DOMAIN data /\ st[i].email = data.email

\* findOne({ $or: [{ email }, { phone }] }), ids in except left out
ExistsWith(st, data, except) ==
  \E i \in (DOMAIN st) \ except :
    \/ "email" \in DOMAIN data /\ st[i].email = data.email
    \/ "phone" \in DOMAIN data /\ st[i].phone = data.phone

\* if (!leadData.probability) leadData.probability = calculateProbability(stage)
FillCreate(data) ==
  IF kind = "lead" /\ data.probability = 0
    THEN [data EXCEPT !.probability = CalculateProbability(data.stage)]
    ELSE data

\* if (updateData.stage && !updateData.probability) ...
FillUpdate(data) ==
  IF kind = "lead" /\ "stage" \in DOMAIN data /\ "probability" \notin DOMAIN data
    THEN Spread(data, [probability |-> CalculateProbability(data.stage)])
    ELSE data

\* mutant: no path is validated
Valid_Anything(data) == TRUE

\* schema validation of the paths a write sets: stage enum, probability
\* min 0 / max 100 (lead schema; the contact schema has neither path)
Valid(data) ==
  kind = "lead" =>
    /\ "stage" \in DOMAIN data => data.stage \in LeadStageEnum
    /\ "probability" \in DOMAIN data =>
          (data.probability >= MIN_PROBABILITY
             /\ data.probability <= MAX_PROBABILITY)

\* the handler returns (or throws) with this response
Respond(p, response) ==
  /\ pc' = [pc EXCEPT ![p] = "done"]
  /\ loc' = [loc EXCEPT ![p] = response]

\* a mutation's store write is done: on to the cache invalidation
\* (req: the data the call was given, kept until it returns)
ToInvalidate(p, op, n, req, wver, dels, ids) ==
  /\ pc' = [pc EXCEPT ![p] = "inval"]
  /\ loc' = [loc EXCEPT ![p] =
        [op |-> op, n |-> n, req |-> req, wver |-> wver, dels |-> dels,
         ids |-> ids]]

\* a mutation returns successfully
Finished(p) ==
  /\ Respond(p, [op |-> loc[p].op, status |-> OK, n |-> loc[p].n,
                 ids |-> loc[p].ids])
  /\ retVer' = Max(retVer, loc[p].wver)

\* ---- createLead / createContact
CreateCheck(p, data) ==
  /\ StartCall(p)
  /\ nextId + Cardinality({q \in Procs : pc[q] = "c_save"}) <= MaxId
  /\ IF ExistsWith(store, data, {})
       THEN Respond(p, [op |-> "create", status |-> CONFLICT])
       ELSE /\ pc' = [pc EXCEPT ![p] = "c_save"]
            /\ loc' = [loc EXCEPT ![p] =
                  [op |-> "create", n |-> calls', data |-> data]]
  /\ UNCHANGED <<clients, channels, kind, store, cache, nextId, ver, retVer, mustVer>>

\* mutant: save() looks for a record with the same email or phone again
CreateSave_Recheck(p) ==
  /\ pc[p] = "c_save"
  /\ IF ExistsWith(store, loc[p].data, {})
       THEN /\ Respond(p, [op |-> "create", status |-> CONFLICT])
            /\ UNCHANGED <<store, nextId, ver>>
       ELSE /\ store' = [i \in (DOMAIN store) \cup {nextId} |->
                           IF i = nextId THEN PreSave(FillCreate(loc[p].data))
                                         ELSE store[i]]
            /\ nextId' = nextId + 1
            /\ ver' = ver + 1
            /\ ToInvalidate(p, "create", loc[p].n, loc[p].data, ver', {}, {})
  /\ UNCHANGED <<clients, channels, kind, cache, calls, retVer, mustVer>>

\* the probability default, new Lead(leadData) and lead.save(): validation
\* runs first and a ValidationError leaves save() before the pre-save hook
CreateSave(p) ==
  /\ pc[p] = "c_save"
  /\ IF ~Valid(FillCreate(loc[p].data))
       THEN /\ Respond(p, [op |-> "create", status |-> BAD_REQUEST])
            /\ UNCHANGED <<store, nextId, ver>>
       ELSE /\ store' = [i \in (DOMAIN store) \cup {nextId} |->
                           IF i = nextId THEN PreSave(FillCreate(loc[p].data))
                                         ELSE store[i]]
            /\ nextId' = nextId + 1
            /\ ver' = ver + 1
            /\ ToInvalidate(p, "create", loc[p].n, loc[p].data, ver', {}, {})
  /\ UNCHANGED <<clients, channels, kind, cache, calls, retVer, mustVer>>

\* ---- cache invalidation after a store write
\* the cache.del calls and clearPattern's KEYS, issued in one tick
Invalidate(p) ==
  /\ pc[p] = "inval"
  /\ cache' = CacheDel(cache, loc[p].dels)
  /\ IF ListKeysIn(cache') = {}
       THEN Finished(p)
       ELSE /\ pc' = [pc EXCEPT ![p] = "inval2"]
            /\ loc' = [loc EXCEPT ![p] = loc[p] @@ [keys |-> ListKeysIn(cache')]]
            /\ UNCHANGED retVer
  /\ UNCHANGED <<clients, channels, kind, store, nextId, ver, calls, mustVer>>

\* clearPattern's client.del(keys)
InvalidateDel(p) ==
  /\ pc[p] = "inval2"
  /\ cache' = CacheDel(cache, loc[p].keys)
  /\ Finished(p)
  /\ UNCHANGED <<clients, channels, kind, store, nextId, ver, calls, mustVer>>

\* ---- getLeadById / getContactById
GetById(p, id) ==
  /\ StartCall(p)
  /\ IF DetailKey(id) \in DOMAIN cache
       THEN Respond(p, [op |-> "get", status |-> OK,
                        result |-> cache[DetailKey(id)].value])
       ELSE /\ pc' = [pc EXCEPT ![p] = "g_find"]
            /\ loc' = [loc EXCEPT ![p] = [op |-> "get", id |-> id]]
  /\ UNCHANGED <<clients, channels, kind, store, cache, nextId, ver, retVer, mustVer>>

\* mutant: the result of findById is cached before it is checked for null
GetFind_CacheBeforeCheck(p) ==
  /\ pc[p] = "g_find"
  /\ IF FindById(loc[p].id) = NULL
       THEN /\ cache' = CacheSet(cache, DetailKey(loc[p].id), NULL, calls)
            /\ Respond(p, [op |-> "get", status |-> NOT_FOUND])
       ELSE /\ pc' = [pc EXCEPT ![p] = "g_set"]
            /\ loc' = [loc EXCEPT ![p] = loc[p] @@ [doc |-> FindById(loc[p].id)]]
            /\ UNCHANGED cache
  /\ UNCHANGED <<clients, channels, kind, store, nextId, ver, calls, retVer, mustVer>>

GetFind(p) ==
  /\ pc[p] = "g_find"
  /\ IF FindById(loc[p].id) = NULL
       THEN Respond(p, [op |-> "get", status |-> NOT_FOUND])
       ELSE /\ pc' = [pc EXCEPT ![p] = "g_set"]
            /\ loc' = [loc EXCEPT ![p] = loc[p] @@ [doc |-> FindById(loc[p].id)]]
  /\ UNCHANGED <<clients, channels, kind, store, cache, nextId, ver, calls, retVer, mustVer>>

GetSet(p) ==
  /\ pc[p] = "g_set"
  /\ cache' = CacheSet(cache, DetailKey(loc[p].id), loc[p].doc, calls)
  /\ Respond(p, [op |-> "get", status |-> OK, result |-> loc[p].doc])
  /\ UNCHANGED <<clients, channels, kind, store, nextId, ver, calls, retVer, mustVer>>

\* ---- getLeads / getContacts
\* a list request returns: it has completed after every write whose call had
\* returned by now
ListReturn(p, key, filter, result, must) ==
  /\ Respond(p, [op |-> "list", status |-> OK, key |-> key,
                 filter |-> filter, result |-> result, must |-> must])
  /\ mustVer' = [mustVer EXCEPT ![key] = Max(@, retVer)]

GetList(p, query) ==
  /\ StartCall(p)
  /\ IF QueryKey(query) \in DOMAIN cache
       THEN ListReturn(p, QueryKey(query), FilterOf(query),
                       cache[QueryKey(query)].value, mustVer[QueryKey(query)])
       ELSE /\ pc' = [pc EXCEPT ![p] = "l_find"]
            /\ loc' = [loc EXCEPT ![p] =
                  [op |-> "list", page |-> PageOf(query), limit |-> LimitOf(query),
                   filter |-> FilterOf(query),
                   must |-> mustVer[QueryKey(query)]]]
            /\ UNCHANGED mustVer
  /\ UNCHANGED <<clients, channels, kind, store, cache, nextId, ver, retVer>>

ListFind(p) ==
  /\ pc[p] = "l_find"
  /\ pc' = [pc EXCEPT ![p] = "l_set"]
  /\ loc' = [loc EXCEPT ![p] = loc[p] @@
        [result |-> ListResult(store, loc[p].filter, loc[p].page,
                               loc[p].limit, ver)]]
  /\ UNCHANGED <<clients, channels, kind, store, cache, nextId, ver, calls, retVer, mustVer>>

ListSet(p) ==
  /\ pc[p] = "l_set"
  /\ cache' = CacheSet(cache, ListKey(loc[p].page, loc[p].limit),
                       loc[p].result, calls)
  /\ ListReturn(p, ListKey(loc[p].page, loc[p].limit), loc[p].filter,
                loc[p].result, loc[p].must)
  /\ UNCHANGED <<clients, channels, kind, store, nextId, ver, calls, retVer>>

\* ---- updateLead / updateContact
\* findByIdAndUpdate(id, { $set: updateData }) and what follows it
\* (runValidators: the update validators reject a $set of an invalid value
\* before the update is sent)
UpdateApply(p, n, id, data) ==
  IF ~Valid(FillUpdate(data))
    THEN /\ Respond(p, [op |-> "update", status |-> BAD_REQUEST])
         /\ UNCHANGED <<store, ver>>
    ELSE IF id \notin DOMAIN store
      THEN /\ Respond(p, [op |-> "update", status |-> NOT_FOUND])
           /\ UNCHANGED <<store, ver>>
      ELSE /\ store' = [store EXCEPT ![id] = Spread(@, FillUpdate(data))]
           /\ ver' = ver + 1
           /\ ToInvalidate(p, "update", n, data, ver', {DetailKey(id)}, {id})

UpdateCheck(p, id, data) ==
  /\ StartCall(p)
  /\ "email" \in DOMAIN data \/ "phone" \in DOMAIN data
  /\ IF ExistsWith(store, data, {id})
       THEN Respond(p, [op |-> "update", status |-> CONFLICT])
       ELSE /\ pc' = [pc EXCEPT ![p] = "u_update"]
            /\ loc' = [loc EXCEPT ![p] =
                  [op |-> "update", n |-> calls', id |-> id, data |-> data]]
  /\ UNCHANGED <<clients, channels, kind, store, cache, nextId, ver, retVer, mustVer>>

UpdateWrite(p) ==
  /\ pc[p] = "u_update"
  /\ UpdateApply(p, loc[p].n, loc[p].id, loc[p].data)
  /\ UNCHANGED <<clients, channels, kind, cache, nextId, calls, retVer, mustVer>>

UpdateDirect(p, id, data) ==
  /\ StartCall(p)
  /\ ~("email" \in DOMAIN data \/ "phone" \in DOMAIN data)
  /\ UpdateApply(p, calls', id, data)
  /\ UNCHANGED <<clients, channels, kind, cache, nextId, retVer, mustVer>>

\* ---- deleteLead / deleteContact
Delete(p, id) ==
  /\ StartCall(p)
  /\ IF id \notin DOMAIN store
       THEN /\ Respond(p, [op |-> "delete", status |-> NOT_FOUND])
            /\ UNCHANGED <<store, ver>>
       ELSE /\ store' = [i \in (DOMAIN store) \ {id} |-> store[i]]
            /\ ver' = ver + 1
            /\ ToInvalidate(p, "delete", calls', [id |-> id], ver',
                            {DetailKey(id)}, {id})
  /\ UNCHANGED <<clients, channels, kind, cache, nextId, retVer, mustVer>>

\* ---- mergeDuplicates, await by await
MergeFind(p, primaryId, duplicateIds) ==
  /\ StartCall(p)
  /\ LET primary0 == FindById(primaryId)
         duplicates == [n \in 1..Len(duplicateIds) |-> FindById(duplicateIds[n])]
     IN IF ~MergeFound(primary0, duplicates)
          THEN Respond(p, [op |-> "merge", status |-> NOT_FOUND])
          ELSE /\ pc' = [pc EXCEPT ![p] = "m_save"]
               /\ loc' = [loc EXCEPT ![p] =
                     [op |-> "merge", n |-> calls', primaryId |-> primaryId,
                      duplicateIds |-> duplicateIds, primary0 |-> primary0,
                      primary |-> PreSave(MergeFold(primary0, duplicates))]]
  /\ UNCHANGED <<clients, channels, kind, store, cache, nextId, ver, retVer, mustVer>>

\* primary.save(): nothing is sent when no path changed; a changed document
\* that is no longer stored makes save() throw
MergeSave(p) ==
  /\ pc[p] = "m_save"
  /\ IF loc[p].primary = loc[p].primary0
       THEN /\ pc' = [pc EXCEPT ![p] = "m_delete"]
            /\ UNCHANGED <<store, ver, loc>>
       ELSE IF loc[p].primaryId \notin DOMAIN store
         THEN /\ Respond(p, [op |-> "merge", status |-> INTERNAL_SERVER_ERROR])
              /\ UNCHANGED <<store, ver>>
         ELSE /\ store' = SaveDoc(store, loc[p].primaryId,
                                  loc[p].primary0, loc[p].primary)
              /\ ver' = ver + 1
              /\ pc' = [pc EXCEPT ![p] = "m_delete"]
              /\ UNCHANGED loc
  /\ UNCHANGED <<clients, channels, kind, cache, nextId, calls, retVer, mustVer>>

MergeDelete(p) ==
  /\ pc[p] = "m_delete"
  /\ store' = DeleteMany(store, loc[p].duplicateIds)
  /\ ver' = IF store' # store THEN ver + 1 ELSE ver
  /\ ToInvalidate(p, "merge", loc[p].n, [id |-> loc[p].primaryId], ver',
        {DetailKey(loc[p].primaryId)}
           \cup {DetailKey(d) : d \in ToSet(loc[p].duplicateIds)},
        {loc[p].primaryId} \cup ToSet(loc[p].duplicateIds))
  /\ UNCHANGED <<clients, channels, kind, cache, nextId, calls, retVer, mustVer>>

\* ---- Redis drops an entry whose TTL has run out
Expire(key) ==
  /\ key \in DOMAIN cache
  /\ cache' = CacheDel(cache, {key})
  /\ UNCHANGED <<clients, channels, kind, store, nextId, ver, pc, loc, calls, retVer, mustVer>>

Init ==
  /\ kind \in {"lead", "contact"}
  /\ store = [i \in 1..Len(Seeded) |-> PreSave(FillCreate(Seeded[i]))]
  /\ cache = [k \in {} |-> NULL]
  /\ nextId = Len(Seeded) + 1
  /\ ver = 0
  /\ pc = [p \in Procs |-> "idle"]
  /\ loc = [p \in Procs |-> Idle]
  /\ calls = 0
  /\ retVer = 0
  /\ mustVer = [k \in QueryKeys |-> 0]
  /\ clients = NoClients
  /\ channels = {}

Next ==
  \/ \E p \in Procs :
       \/ \E data \in CreateInputs : CreateCheck(p, data)
       \/ CreateSave(p)
       \/ Invalidate(p)
       \/ InvalidateDel(p)
       \/ \E id \in Ids : GetById(p, id)
       \/ GetFind(p)
       \/ GetSet(p)
       \/ \E query \in QueryInputs : GetList(p, query)
       \/ ListFind(p)
       \/ ListSet(p)
       \/ \E id \in Ids, data \in UpdateInputs :
            UpdateCheck(p, id, data) \/ UpdateDirect(p, id, data)
       \/ UpdateWrite(p)
       \/ \E id \in Ids : Delete(p, id)
       \/ \E primaryId \in Ids, duplicateIds \in SeqsUpTo(Ids, MaxConcDups) :
            MergeFind(p, primaryId, duplicateIds)
       \/ MergeSave(p)
       \/ MergeDelete(p)
  \/ \E key \in DOMAIN cache : Expire(key)

Spec == Init /\ [][Next]_vars

\* ------------------------------------------------ failing cache commands
\* Every Cache method catches a failing Redis command, logs it and returns
\* (get returns null).

\* cache.get failed: the handler goes on as on a miss
GetByIdCacheDown(p, id) ==
  /\ StartCall(p)
  /\ pc' = [pc EXCEPT ![p] = "g_find"]
  /\ loc' = [loc EXCEPT ![p] = [op |-> "get", id |-> id]]
  /\ UNCHANGED <<clients, channels, kind, store, cache, nextId, ver, retVer, mustVer>>

GetListCacheDown(p, query) ==
  /\ StartCall(p)
  /\ pc' = [pc EXCEPT ![p] = "l_find"]
  /\ loc' = [loc EXCEPT ![p] =
        [op |-> "list", page |-> PageOf(query), limit |-> LimitOf(query),
         filter |-> FilterOf(query),
         must |-> mustVer[QueryKey(query)]]]
  /\ UNCHANGED <<clients, channels, kind, store, cache, nextId, ver, retVer, mustVer>>

\* cache.set failed: nothing is cached, the result is returned
GetSetCacheDown(p) ==
  /\ pc[p] = "g_set"
  /\ Respond(p, [op |-> "get", status |-> OK, result |-> loc[p].doc])
  /\ UNCHANGED <<clients, channels, kind, store, cache, nextId, ver, calls, retVer, mustVer>>

ListSetCacheDown(p) ==
  /\ pc[p] = "l_set"
  /\ ListReturn(p, ListKey(loc[p].page, loc[p].limit), loc[p].filter,
                loc[p].result, loc[p].must)
  /\ UNCHANGED <<clients, channels, kind, store, cache, nextId, ver, calls, retVer>>

\* mutant: the error of the failed KEYS command reaches the caller
InvalidateKeysDown_Throws(p, delDown) ==
  /\ pc[p] = "inval"
  /\ cache' = IF delDown THEN cache ELSE CacheDel(cache, loc[p].dels)
  /\ Respond(p, [op |-> loc[p].op, status |-> INTERNAL_SERVER_ERROR])
  /\ UNCHANGED <<clients, channels, kind, store, nextId, ver, calls, retVer, mustVer>>

\* clearPattern's KEYS failed (nothing is cleared); the cache.del calls of
\* the same tick went through or failed as well
InvalidateKeysDown(p, delDown) ==
  /\ pc[p] = "inval"
  /\ cache' = IF delDown THEN cache ELSE CacheDel(cache, loc[p].dels)
  /\ Finished(p)
  /\ UNCHANGED <<clients, channels, kind, store, nextId, ver, calls, mustVer>>

\* the cache.del calls failed, clearPattern's KEYS went through
InvalidateDelsDown(p) ==
  /\ pc[p] = "inval"
  /\ IF ListKeysIn(cache) = {}
       THEN Finished(p)
       ELSE /\ pc' = [pc EXCEPT ![p] = "inval2"]
            /\ loc' = [loc EXCEPT ![p] =
                  loc[p] @@ [keys |-> ListKeysIn(cache)]]
            /\ UNCHANGED retVer
  /\ UNCHANGED <<clients, channels, kind, store, cache, nextId, ver, calls, mustVer>>

\* clearPattern's client.del(keys) failed
InvalidateDelDown(p) ==
  /\ pc[p] = "inval2"
  /\ Finished(p)
  /\ UNCHANGED <<clients, channels, kind, store, cache, nextId, ver, calls, mustVer>>

NextFail ==
  \/ Next
  \/ \E p \in Procs :
       \/ \E id \in Ids : GetByIdCacheDown(p, id)
       \/ \E query \in QueryInputs : GetListCacheDown(p, query)
       \/ GetSetCacheDown(p)
       \/ ListSetCacheDown(p)
       \/ \E delDown \in BOOLEAN : InvalidateKeysDown(p, delDown)
       \/ InvalidateDelsDown(p)
       \/ InvalidateDelDown(p)

SpecFail == Init /\ [][NextFail]_vars

\* -------------------------------------------------------- findDuplicates
UNDEFINED == [isUndefined |-> TRUE]

THROWN == [threw |-> TRUE]

\* Model.findDuplicates(candidate): find({ $or: [{ email }, { phone },
\* { $and: [{ name }, { company }] }] }); reading a property of an undefined
\* candidate throws a TypeError
FindDuplicates(st, candidate) ==
  IF candidate = UNDEFINED
    THEN THROWN
    ELSE [ids |-> {i \in DOMAIN st :
                     \/ st[i].email = candidate.email
                     \/ st[i].phone = candidate.phone
                     \/ (st[i].name = candidate.name
                           /\ st[i].company = candidate.company)}]

\* LeadService.findDuplicates / ContactService.findDuplicates: the service
\* method has no parameter and calls Model.findDuplicates() without one, so
\* whatever the caller passes the model operation gets undefined
FindDuplicatesCall(p, candidate) ==
  /\ StartCall(p)
  /\ LET found == FindDuplicates(store, UNDEFINED)
     IN IF found = THROWN
          THEN Respond(p, [op |-> "findDuplicates", candidate |-> candidate,
                           status |-> INTERNAL_SERVER_ERROR])
          ELSE Respond(p, [op |-> "findDuplicates", candidate |-> candidate,
                           status |-> OK, result |-> found.ids])
  /\ UNCHANGED <<clients, channels, kind, store, cache, nextId, ver, retVer, mustVer>>

\* ================================================= one call at a time
\* The same handlers, each call started after the one before it has returned.
\* The n-th call runs in slot n, so loc keeps the responses of all calls.
SeqProcs == 1..MaxCalls

Turn(p) ==
  /\ \A q \in SeqProcs \ {p} : Free(q)
  /\ Free(p) => (pc[p] = "idle" /\ p = calls + 1)

\* a new record's request body with the given stage and probability
NewInput(stage, probability) ==
  [CreateInput(MaxId, <<"z">>, << >>) EXCEPT
     !.stage = stage, !.probability = probability]

\* request bodies of create: clashing with a seeded record on email and
\* phone, on phone only, on name and company only (NewInput), on nothing;
\* for a lead with and without probability, a stage outside the schema's
\* enum and a probability below 0 (an update tries one above 100)
SeqCreateInputs ==
  {Seeded[1], [Seeded[1] EXCEPT !.email = MaxId],
   NewInput("New", 0), [NewInput("New", 0) EXCEPT !.name = "m"]}
  \cup (IF kind = "lead"
          THEN {NewInput("Won", 0), NewInput("Lost", 0), NewInput("new", 0),
                NewInput("Qualified", 60), NewInput("New", -5)}
          ELSE {})

SeqUpdateInputs ==
  UpdateInputs
  \cup {[phone |-> MaxId]}
  \cup (IF kind = "lead"
          THEN {[stage |-> "Won"], [stage |-> "won"], [stage |-> "Lost"],
                [stage |-> "Contacted", probability |-> 60],
                [probability |-> 150]}
          ELSE {})

\* list requests: pages inside and beyond the data, a limit above MAX_LIMIT,
\* one and two filters
SeqQueryInputs ==
  QueryInputs
  \cup {Query(MaxId + 1, 1, "", ""), Query(0, MAX_LIMIT + 1, "", ""),
        Query(0, 0, "u1", ""), Query(0, 0, "u1", "n"), Query(0, 0, "u2", "zz")}

SeqQueryKeys == {QueryKey(q) : q \in SeqQueryInputs}

Candidates ==
  {[email |-> 1, phone |-> 1, name |-> "n", company |-> "c"],
   [email |-> MaxId + 1, phone |-> 2, name |-> "m", company |-> "c"]}

InitSeq ==
  /\ kind \in {"lead", "contact"}
  /\ store = [i \in 1..Len(Seeded) |-> PreSave(FillCreate(Seeded[i]))]
  /\ cache = [k \in {} |-> NULL]
  /\ nextId = Len(Seeded) + 1
  /\ ver = 0
  /\ pc = [p \in SeqProcs |-> "idle"]
  /\ loc = [p \in SeqProcs |-> Idle]
  /\ calls = 0
  /\ retVer = 0
  /\ mustVer = [k \in SeqQueryKeys |-> 0]
  /\ clients = NoClients
  /\ channels = {}

NextSeq ==
  \E p \in SeqProcs :
    \/ Turn(p) /\ \E data \in SeqCreateInputs : CreateCheck(p, data)
    \/ Turn(p) /\ CreateSave(p)
    \/ Turn(p) /\ Invalidate(p)
    \/ Turn(p) /\ InvalidateDel(p)
    \/ Turn(p) /\ \E id \in Ids : GetById(p, id)
    \/ Turn(p) /\ GetFind(p)
    \/ Turn(p) /\ GetSet(p)
    \/ Turn(p) /\ \E query \in SeqQueryInputs : GetList(p, query)
    \/ Turn(p) /\ ListFind(p)
    \/ Turn(p) /\ ListSet(p)
    \/ Turn(p) /\ \E id \in Ids, data \in SeqUpdateInputs :
                    UpdateCheck(p, id, data)
    \/ Turn(p) /\ \E id \in Ids, data \in SeqUpdateInputs :
                    UpdateDirect(p, id, data)
    \/ Turn(p) /\ UpdateWrite(p)
    \/ Turn(p) /\ \E id \in Ids : Delete(p, id)
    \/ Turn(p) /\ \E primaryId \in Ids,
                     duplicateIds \in SeqsUpTo(Ids, MaxConcDups) :
                    MergeFind(p, primaryId, duplicateIds)
    \/ Turn(p) /\ MergeSave(p)
    \/ Turn(p) /\ MergeDelete(p)
    \/ Turn(p) /\ \E candidate \in Candidates : FindDuplicatesCall(p, candidate)

SpecSeq == InitSeq /\ [][NextSeq]_vars

\* ============================================ creates in flight together
\* The interleaved handlers over a store of one record, so that two creates
\* can insert: create requests with the stored record's email and phone, with
\* a new email and phone, and with another new email and the same new phone.
RaceInputs ==
  {Seeded[1], CreateInput(2, <<"y">>, << >>),
   [CreateInput(2, <<"z">>, << >>) EXCEPT !.email = 3]}

InitRace ==
  /\ kind \in {"lead", "contact"}
  /\ store = [i \in {1} |-> PreSave(FillCreate(Seeded[1]))]
  /\ cache = [k \in {} |-> NULL]
  /\ nextId = 2
  /\ ver = 0
  /\ pc = [p \in Procs |-> "idle"]
  /\ loc = [p \in Procs |-> Idle]
  /\ calls = 0
  /\ retVer = 0
  /\ mustVer = [k \in QueryKeys |-> 0]
  /\ clients = NoClients
  /\ channels = {}

NextRace ==
  \E p \in Procs :
    \/ \E data \in RaceInputs : CreateCheck(p, data)
    \/ CreateSave(p)
    \/ Invalidate(p)
    \/ InvalidateDel(p)
    \/ \E query \in QueryInputs : GetList(p, query)
    \/ ListFind(p)
    \/ ListSet(p)

SpecRace == InitRace /\ [][NextRace]_vars

\* ============================================= a merge cut short, re-run
\* The process exits between primary.save() and deleteMany: the primary is
\* stored as folded, the duplicates are still there, no cache entry has been
\* invalidated and the caller gets no response.
MergeInterrupted(p, primaryId, duplicateIds) ==
  /\ pc[p] = "idle"
  /\ calls = 0
  /\ calls' = calls + 1
  /\ LET primary0 == FindById(primaryId)
         duplicates == [n \in 1..Len(duplicateIds) |-> FindById(duplicateIds[n])]
         primary == PreSave(MergeFold(primary0, duplicates))
     IN /\ MergeFound(primary0, duplicates)
        /\ store' = SaveDoc(store, primaryId, primary0, primary)
        /\ ver' = ver + 1
        /\ pc' = [pc EXCEPT ![p] = "stopped"]
        /\ loc' = [loc EXCEPT ![p] =
                [op |-> "merge", primaryId |-> primaryId,
                 duplicateIds |-> duplicateIds, primary0 |-> primary0,
                 duplicates |-> duplicates, primary |-> primary]]
  /\ UNCHANGED <<clients, channels, kind, cache, nextId, retVer, mustVer>>

\* mergeDuplicates is called again with the arguments of the call cut short
MergeAgain(p, q) ==
  /\ pc[q] = "stopped"
  /\ MergeRun(p, loc[q].primaryId, loc[q].duplicateIds)

NextRemerge ==
  \/ \E primaryId \in Ids, duplicateIds \in SeqsUpTo(Ids, MaxDups) :
       MergeInterrupted(1, primaryId, duplicateIds)
  \/ MergeAgain(2, 1)

SpecRemerge == InitMerge /\ [][NextRemerge]_vars

\* ================================================================ import
\* the second argument of validate: a Joi schema object or, as the import
\* service passes it, the name of one
SchemaName(name) == [isSchema |-> FALSE, name |-> name]

\* Object.values(LEAD_STAGES)
LeadStageValues ==
  {"new", "contacted", "qualified", "proposal", "negotiation", "won", "lost"}

\* validate(data, schema): schema.validate(data, options); a string has no
\* method validate, so the call throws a TypeError
Validate(data, schema) ==
  IF ~schema.isSchema
    THEN [threw |-> TRUE]
    ELSE [threw |-> FALSE,
          isValid |-> (kind = "lead" =>
                         /\ data.stage \in LeadStageValues
                         /\ data.probability >= MIN_PROBABILITY
                         /\ data.probability <= MAX_PROBABILITY),
          value |-> data]

\* body of the loop over the rows: validate, look for a stored record with
\* the email or phone, save; whatever is thrown counts the row as failed
ImportOne(acc, row) ==
  LET v == Validate(row, SchemaName("create"))
  IN IF v.threw \/ ~v.isValid
       THEN [acc EXCEPT !.failed = @ + 1]
       ELSE IF ExistsWith(acc.store, v.value, {})
         THEN [acc EXCEPT !.duplicates = @ + 1]
         ELSE IF ~Valid(v.value)
           THEN [acc EXCEPT !.failed = @ + 1]
           ELSE [acc EXCEPT
                   !.store = [i \in (DOMAIN acc.store) \cup {acc.nextId} |->
                                IF i = acc.nextId THEN PreSave(v.value)
                                                  ELSE acc.store[i]],
                   !.nextId = @ + 1,
                   !.ver = @ + 1,
                   !.success = @ + 1]

RECURSIVE ImportFold(_, _)
ImportFold(acc, rows) ==
  IF rows = << >> THEN acc
  ELSE ImportFold(ImportOne(acc, Head(rows)), Tail(rows))

\* importLeads / importContacts, run without another handler in between; no
\* cache command is issued
ImportRows(p, rows) ==
  /\ StartCall(p)
  /\ nextId + Len(rows) - 1 <= MaxId
  /\ LET out == ImportFold([store |-> store, nextId |-> nextId, ver |-> ver,
                            success |-> 0, failed |-> 0, duplicates |-> 0],
                           rows)
     IN /\ store' = out.store
        /\ nextId' = out.nextId
        /\ ver' = out.ver
        /\ retVer' = Max(retVer, out.ver)
        /\ Respond(p, [op |-> "import", status |-> OK, rows |-> rows,
                       results |-> [total |-> Len(rows),
                                    success |-> out.success,
                                    failed |-> out.failed,
                                    duplicates |-> out.duplicates]])
  /\ UNCHANGED <<clients, channels, kind, cache, mustVer>>

\* CSV files: one new row; a row of a stored record; such a row and a new row
ImportInputs ==
  {<<NewInput("new", 0)>>, <<Seeded[2]>>, <<Seeded[1], NewInput("new", 0)>>}

\* imports and list requests, one call at a time
NextImport ==
  \E p \in SeqProcs :
    \/ Turn(p) /\ \E rows \in ImportInputs : ImportRows(p, rows)
    \/ Turn(p) /\ \E query \in QueryInputs : GetList(p, query)
    \/ Turn(p) /\ ListFind(p)
    \/ Turn(p) /\ ListSet(p)

SpecImport == InitSeq /\ [][NextImport]_vars

\* =========================================================== SyncService
\* The WebSocket message and close handlers of SyncService.  A handler slot
\* of pc / loc runs one message handler; its steps end at the handler's
\* awaits (subClient.subscribe, subClient.unsubscribe).  A handler holds the
\* client object it looked up: once the client is removed from this.clients,
\* what the handler writes to the object is no longer in the map.
ClientIds == 1..MaxClients

ChannelNames == {"leads", "contacts"}

\* data.channels of a subscribe or unsubscribe message
ChannelLists == SeqsUpTo(ChannelNames, 2) \ {<< >>}

\* client.subscriptions.add(channel)
AddSubscription(cl, clientId, channel) ==
  IF clientId \in DOMAIN cl
    THEN [cl EXCEPT ![clientId] = @ \cup {channel}]
    ELSE cl

\* client.subscriptions.delete(channel)
DeleteSubscription(cl, clientId, channel) ==
  IF clientId \in DOMAIN cl
    THEN [cl EXCEPT ![clientId] = @ \ {channel}]
    ELSE cl

\* the loop of handleSubscribe up to its next await: a channel that
\* this.channels has is added to the client's subscriptions at once
RECURSIVE SubscribeLoop(_, _, _, _)
SubscribeLoop(cl, ch, clientId, rest) ==
  IF rest = << >> \/ Head(rest) \notin ch
    THEN [clients |-> cl, rest |-> rest]
    ELSE SubscribeLoop(AddSubscription(cl, clientId, Head(rest)), ch,
                       clientId, Tail(rest))

\* the loop of handleUnsubscribe up to its next await: the channel leaves the
\* client's subscriptions, and while a client of this.clients still has it
\* the loop goes on
RECURSIVE UnsubscribeLoop(_, _, _)
UnsubscribeLoop(cl, clientId, rest) ==
  IF rest = << >> THEN [clients |-> cl, rest |-> rest]
  ELSE LET removed == DeleteSubscription(cl, clientId, Head(rest))
       IN IF \E c \in DOMAIN removed : Head(rest) \in removed[c]
            THEN UnsubscribeLoop(removed, clientId, Tail(rest))
            ELSE [clients |-> removed, rest |-> rest]

\* the handler is suspended at its await, or has sent its reply
SyncSuspend(p, op, at, clientId, rest) ==
  IF rest = << >>
    THEN Respond(p, [op |-> op, status |-> OK, clientId |-> clientId])
    ELSE /\ pc' = [pc EXCEPT ![p] = at]
         /\ loc' = [loc EXCEPT ![p] =
               [op |-> op, clientId |-> clientId, rest |-> rest]]

\* a subscribe message arrives: handleClientMessage, handleSubscribe
HandleSubscribe(p, clientId, chans) ==
  /\ StartCall(p)
  /\ clientId \in DOMAIN clients
  /\ LET run == SubscribeLoop(clients, channels, clientId, chans)
     IN /\ clients' = run.clients
        /\ SyncSuspend(p, "subscribe", "s_await", clientId, run.rest)
  /\ UNCHANGED <<channels, kind, store, cache, nextId, ver, retVer, mustVer>>

\* subClient.subscribe(channel) has resolved: this.channels.add(channel),
\* client.subscriptions.add(channel), and on with the loop
SubscribeResume(p) ==
  /\ pc[p] = "s_await"
  /\ LET channel == Head(loc[p].rest)
         run == SubscribeLoop(
                  AddSubscription(clients, loc[p].clientId, channel),
                  channels \cup {channel}, loc[p].clientId, Tail(loc[p].rest))
     IN /\ channels' = channels \cup {channel}
        /\ clients' = run.clients
        /\ SyncSuspend(p, "subscribe", "s_await", loc[p].clientId, run.rest)
  /\ UNCHANGED <<kind, store, cache, nextId, ver, calls, retVer, mustVer>>

\* an unsubscribe message arrives: handleClientMessage, handleUnsubscribe
HandleUnsubscribe(p, clientId, chans) ==
  /\ StartCall(p)
  /\ clientId \in DOMAIN clients
  /\ LET run == UnsubscribeLoop(clients, clientId, chans)
     IN /\ clients' = run.clients
        /\ SyncSuspend(p, "unsubscribe", "u_await", clientId, run.rest)
  /\ UNCHANGED <<channels, kind, store, cache, nextId, ver, retVer, mustVer>>

\* subClient.unsubscribe(channel) has resolved: this.channels.delete(channel)
\* and on with the loop
UnsubscribeResume(p) ==
  /\ pc[p] = "u_await"
  /\ LET run == UnsubscribeLoop(clients, loc[p].clientId, Tail(loc[p].rest))
     IN /\ channels' = channels \ {Head(loc[p].rest)}
        /\ clients' = run.clients
        /\ SyncSuspend(p, "unsubscribe", "u_await", loc[p].clientId, run.rest)
  /\ UNCHANGED <<kind, store, cache, nextId, ver, calls, retVer, mustVer>>

\* ws 'close' or 'error': handleClientDisconnect, which has no await
HandleClientDisconnect(clientId) ==
  /\ clientId \in DOMAIN clients
  /\ channels' = channels \
       {channel \in clients[clientId] :
          ~ \E other \in (DOMAIN clients) \ {clientId} :
              channel \in clients[other]}
  /\ clients' = [c \in (DOMAIN clients) \ {clientId} |-> clients[c]]
  /\ UNCHANGED <<kind, store, cache, nextId, ver, pc, loc, calls, retVer,
                 mustVer>>

\* every client has connected and none has subscribed yet
InitSync ==
  /\ kind = "lead"
  /\ store = [i \in {} |-> NULL]
  /\ cache = [k \in {} |-> NULL]
  /\ nextId = 1
  /\ ver = 0
  /\ pc = [p \in Procs |-> "idle"]
  /\ loc = [p \in Procs |-> Idle]
  /\ calls = 0
  /\ retVer = 0
  /\ mustVer = [k \in {} |-> 0]
  /\ clients = [c \in ClientIds |-> {}]
  /\ channels = {}

NextSync ==
  \/ \E p \in Procs :
       \/ \E clientId \in ClientIds, chans \in ChannelLists :
            HandleSubscribe(p, clientId, chans)
       \/ SubscribeResume(p)
       \/ \E clientId \in ClientIds, chans \in ChannelLists :
            HandleUnsubscribe(p, clientId, chans)
       \/ UnsubscribeResume(p)
  \/ \E clientId \in ClientIds : HandleClientDisconnect(clientId)

SpecSync == InitSync /\ [][NextSync]_vars

\* ======================================================= claims on merge
MergeDone(p) == pc[p] = "done" /\ loc[p].op = "merge"

MergeOk(p) == MergeDone(p) /\ loc[p].status = OK

\* the looked-up duplicates that resolved, in duplicateIds order
Resolved(duplicates) == SelectSeq(duplicates, LAMBDA d : d # NULL)

Suppliers(duplicates, k) ==
  {n \in 1..Len(duplicates) :
     duplicates[n] # NULL /\ k \in DOMAIN duplicates[n].customFields}

SetMax(S) == CHOOSE x \in S : \A y \in S : y <= x

SetMin(S) == CHOOSE x \in S : \A y \in S : x <= y

\* C1: after a successful mergeDuplicates the record primaryId still exists
\* and no record with an id of duplicateIds exists, for every duplicateIds,
\* also one that repeats an id or contains primaryId.
C1_PrimaryKeptDuplicatesGone ==
  \A p \in Procs :
    MergeOk(p) =>
      /\ loc[p].primaryId \in DOMAIN store
      /\ \A d \in ToSet(loc[p].duplicateIds) : d \notin DOMAIN store

\* C2: after a successful lead merge the persisted primary has the maximum
\* amount and the maximum probability of the primary and the resolved
\* duplicates (a tie leaves the primary's value).
C2_MaxAmountAndProbability ==
  \A p \in Procs :
    (MergeOk(p) /\ kind = "lead" /\ loc[p].primaryId \in DOMAIN store) =>
      LET docs == <<loc[p].primary0>> \o Resolved(loc[p].duplicates)
          stored == store[loc[p].primaryId]
      IN /\ stored.amount = SetMax({docs[n].amount : n \in 1..Len(docs)})
         /\ stored.probability =
              SetMax({docs[n].probability : n \in 1..Len(docs)})

RECURSIVE EachAfterSep(_)
EachAfterSep(ts) ==
  IF ts = << >> THEN << >>
  ELSE <<SEP>> \o Head(ts) \o EachAfterSep(Tail(ts))

\* the texts of ts with the separator between neighbours
RECURSIVE JoinSep(_)
JoinSep(ts) ==
  IF ts = << >> THEN << >>
  ELSE IF Len(ts) = 1 THEN Head(ts)
  ELSE Head(ts) \o <<SEP>> \o JoinSep(Tail(ts))

DuplicateNotes(duplicates) ==
  LET res == Resolved(duplicates)
      texts == [n \in 1..Len(res) |-> res[n].notes]
  IN SelectSeq(texts, LAMBDA t : t # << >>)

C8_NotFoundIffNoPrimary ==
  [][\A p \in Procs :
       (pc[p] = "idle" /\ pc'[p] = "done" /\ loc'[p].op = "merge") =>
         /\ loc'[p].status = NOT_FOUND <=> loc'[p].primaryId \notin DOMAIN store
         /\ loc'[p].status # NOT_FOUND => loc'[p].status = OK
         /\ loc'[p].status = NOT_FOUND => store' = store /\ cache' = cache
         /\ loc'[p].status = OK =>
              LET present == SelectSeq(loc'[p].duplicateIds,
                                       LAMBDA d : d \in DOMAIN store)
              IN loc'[p].primary =
                   PreSave(MergeFold(store[loc'[p].primaryId],
                             [n \in 1..Len(present) |-> store[present[n]]]))]_vars

\* a merge failed with 404 while the store and the cache hold entries
C8_Witness ==
  \E p \in Procs :
    /\ MergeDone(p)
    /\ loc[p].status = NOT_FOUND
    /\ \E d \in ToSet(loc[p].duplicateIds) : d \in DOMAIN store
    /\ \E i \in DOMAIN store : DetailKey(i) \in DOMAIN cache

\* =================================================== claims on the cache
Mutations == {"create", "update", "delete", "merge"}

MutationOk(p) ==
  pc[p] = "done" /\ loc[p].op \in Mutations /\ loc[p].status = OK

\* the keys a mutation has to invalidate: every list page and the detail
\* entries of the ids it was called with
Invalidated(p) ==
  {k \in DOMAIN cache : k[1] = "list"} \cup {DetailKey(i) : i \in loc[p].ids}

\* C9: once a create, update, delete or merge call has written the
\* store and ended, the cache holds no list entry and no detail entry of the
\* call's ids that was written before the call began.
C9_NoEntryFromBeforeTheCall ==
  \A p \in Procs :
    MutationOk(p) =>
      \A k \in Invalidated(p) \cap DOMAIN cache : cache[k].at >= loc[p].n

\* C10: once a write call has returned and a list request for a key has
\* completed after it, every later list request for that key returns a page
\* computed from a store content that includes the write.
C10_NoStalePageAfterNextList ==
  \A p \in Procs :
    (pc[p] = "done" /\ loc[p].op = "list") => loc[p].result.ver >= loc[p].must

\* ============================================ claims on calls in sequence
ListDone(i) == pc[i] = "done" /\ loc[i].op = "list"

CreateOk(i) ==
  pc[i] = "done" /\ loc[i].op = "create" /\ loc[i].status = OK

\* calls i, i+1, i+2 were a list request, a successful create and the same
\* list request again, and no call has started since
ListCreateList(i) ==
  /\ i + 2 \in SeqProcs
  /\ calls = i + 2
  /\ ListDone(i) /\ CreateOk(i + 1) /\ ListDone(i + 2)
  /\ loc[i + 2].key = loc[i].key
  /\ loc[i + 2].filter = loc[i].filter

\* the list result of the request on the current store
FreshResult(key, filter) == ListResult(store, filter, key[2], key[3], ver)

C12_PayloadIsForTheRequestedFilter ==
  \A i \in SeqProcs :
    ListDone(i) => loc[i].result.filter = loc[i].filter

\* the stored ids a filter selects
Matching(filter) == {j \in DOMAIN store : Matches(store[j], filter)}

C14_LimitWithinBounds ==
  \A i \in SeqProcs :
    /\ pc[i] \in {"l_find", "l_set"} =>
         (loc[i].limit >= 1 /\ loc[i].limit <= MAX_LIMIT)
    /\ ListDone(i) =>
         (loc[i].result.limit >= 1 /\ loc[i].result.limit <= MAX_LIMIT)

CallOk(i, op) == pc[i] = "done" /\ loc[i].op = op /\ loc[i].status = OK

\* C15: every stored lead has a probability in [0, 100], whatever calls of
\* createLead, updateLead, mergeDuplicates and deleteLead have succeeded.
C15_ProbabilityWithinRange ==
  kind = "lead" =>
    \A j \in DOMAIN store :
      store[j].probability >= 0 /\ store[j].probability <= 100

\* leads are stored after a create and a merge have succeeded and an update
\* to a probability above 100 has been rejected
C15_Witness ==
  /\ kind = "lead"
  /\ store # << >>
  /\ \E i, j, k \in SeqProcs :
       /\ CallOk(i, "create")
       /\ CallOk(j, "merge")
       /\ pc[k] = "done" /\ loc[k].op = "update"
       /\ loc[k].status = BAD_REQUEST

\* the stage table the claims name
ClaimedProbability(stage) ==
  CASE stage = "New" -> 20
    [] stage = "Contacted" -> 40
    [] stage = "Qualified" -> 60
    [] stage = "Proposal" -> 80
    [] stage = "Negotiation" -> 90
    [] stage = "Won" -> 100
    [] stage = "Lost" -> 0

\* C16: a lead created without explicit probability is stored with the
\* probability the stage table (New 20, Contacted 40, Qualified 60, Proposal
\* 80, Negotiation 90, Won 100, Lost 0) gives for its stage; with stage "New"
\* that is 20.
C16_CreatedWithStageProbability ==
  \A i \in SeqProcs :
    (kind = "lead" /\ pc[i] = "inval" /\ loc[i].op = "create"
       /\ loc[i].req.probability = 0) =>
      store[nextId - 1].probability = ClaimedProbability(loc[i].req.stage)

\* C17: an update that changes a lead's stage without giving a probability
\* leaves the lead stored with the stage table's probability of the new
\* stage; with stage "Won" that is 100.
C17_UpdatedWithStageProbability ==
  \A i \in SeqProcs :
    (kind = "lead" /\ pc[i] = "inval" /\ loc[i].op = "update"
       /\ "stage" \in DOMAIN loc[i].req
       /\ "probability" \notin DOMAIN loc[i].req) =>
      \A id \in loc[i].ids :
        store[id].probability = ClaimedProbability(loc[i].req.stage)

\* the stored ids that match a candidate on email, on phone, or on both name
\* and company
DuplicatesOf(candidate) ==
  {j \in DOMAIN store :
     \/ store[j].email = candidate.email
     \/ store[j].phone = candidate.phone
     \/ (store[j].name = candidate.name /\ store[j].company = candidate.company)}

\* C18: the service-level findDuplicates called for a candidate returns
\* successfully, and what it returns are exactly the stored records matching
\* the candidate on email, on phone, or on both name and company.
C18_ServiceFindsDuplicates ==
  \A i \in SeqProcs :
    (pc[i] = "done" /\ loc[i].op = "findDuplicates") =>
      /\ loc[i].status = OK
      /\ calls = i => loc[i].result = DuplicatesOf(loc[i].candidate)

\* C19: a create call gets past its duplicate check (and goes on to insert
\* the record) only when no stored record matches the candidate on email, on
\* phone, or on both name and company.
C19_CreateRejectsEveryDuplicate ==
  \A i \in SeqProcs :
    pc[i] = "c_save" => DuplicatesOf(loc[i].data) = {}

\* handler p returns Conflict from create or update, or NotFound from get,
\* update or delete, in this step
FailsNow(p) ==
  /\ pc[p] # "done" /\ pc'[p] = "done"
  /\ \/ loc'[p].op \in {"create", "update"} /\ loc'[p].status = CONFLICT
     \/ loc'[p].op \in {"get", "update", "delete"}
          /\ loc'[p].status = NOT_FOUND

\* handler p takes the step before the one that can fail that way: update's
\* duplicate check has passed, get has missed the cache
ChecksNow(p) == pc[p] = "idle" /\ pc'[p] \in {"u_update", "g_find"}

\* C20: with one call at a time, a create or update that fails with Conflict
\* and a get, update or delete that fails with NotFound leave the store and
\* the cache as they were before the call: none of the call's steps changes
\* either.
C20_FailedCallChangesNothing ==
  [][\A p \in SeqProcs :
       (FailsNow(p) \/ ChecksNow(p)) => (store' = store /\ cache' = cache)]_vars

\* an update has failed with Conflict and a get or delete with NotFound while
\* records are stored and entries cached
C20_Witness ==
  /\ DOMAIN store # {} /\ DOMAIN cache # {}
  /\ \E i, j \in SeqProcs :
       /\ pc[i] = "done" /\ loc[i].op = "update" /\ loc[i].status = CONFLICT
       /\ pc[j] = "done" /\ loc[j].op \in {"get", "delete"}
       /\ loc[j].status = NOT_FOUND

\* ============================================= claims on racing creates
\* two stored records with the same email or the same phone
SharedIdentity ==
  {pair \in (DOMAIN store) \X (DOMAIN store) :
     /\ pair[1] < pair[2]
     /\ \/ store[pair[1]].email = store[pair[2]].email
        \/ store[pair[1]].phone = store[pair[2]].phone}

\* C21: a create that passed its duplicate check inserts its record and
\* goes on to return success even when, by the time it inserts, another
\* create has stored a record with the same email or phone: the record it
\* inserts then shares that field with a stored record.
C21_RacingCreatesBothInsert ==
  [][\A p \in Procs :
       (pc[p] = "c_save" /\ pc'[p] # "c_save"
          /\ ExistsWith(store, loc[p].data, {}))
       => /\ pc'[p] = "inval"
          /\ DOMAIN store' = (DOMAIN store) \cup {nextId}
          /\ store'[nextId].email = loc[p].data.email
          /\ store'[nextId].phone = loc[p].data.phone
          /\ \E i \in DOMAIN store :
               \/ store'[i].email = store'[nextId].email
               \/ store'[i].phone = store'[nextId].phone]_vars

\* two creates have both returned success and the store holds two records
\* with the same phone and different emails
C21_Witness ==
  /\ \A p \in Procs :
       pc[p] = "done" /\ loc[p].op = "create" /\ loc[p].status = OK
  /\ \E pair \in SharedIdentity :
       /\ store[pair[1]].phone = store[pair[2]].phone
       /\ store[pair[1]].email # store[pair[2]].email

\* ======================================= claims on failing cache commands
\* handler p takes a step
Moves(p) == pc'[p] # pc[p] \/ loc'[p] # loc[p]

\* the step of p runs a cache command: the cache.get that opens a get or a
\* list request, the cache.set that closes it, the cache.del and clearPattern
\* commands after a store write
CacheCommandStep(p) ==
  /\ Moves(p)
  /\ \/ Free(p) /\ loc'[p].op \in {"get", "list"}
     \/ pc[p] \in {"g_set", "l_set", "inval", "inval2"}

\* C22: whether its Redis command succeeds or fails, no step that runs a
\* cache command ends a call with an error: a get or list request whose
\* cache.get failed goes on to read the store, the request returns what it
\* read from the store also when cache.set failed, and a create, update,
\* delete or merge returns success after its store write also when del or
\* clearPattern failed.
C22_CacheFailureNeverFailsTheCall ==
  [][\A p \in Procs :
       CacheCommandStep(p) =>
         /\ pc'[p] = "done" => loc'[p].status = OK
         /\ pc[p] = "g_set" =>
              (pc'[p] = "done" /\ loc'[p].result = loc[p].doc)
         /\ pc[p] = "l_set" =>
              (pc'[p] = "done" /\ loc'[p].result = loc[p].result)
         /\ pc[p] \in {"inval", "inval2"} =>
              (pc'[p] \in {"inval2", "done"} /\ store' = store)
         /\ Free(p) =>
              \/ pc'[p] = "done"
                   /\ \E k \in DOMAIN cache :
                        loc'[p].result = cache[k].value
              \/ pc'[p] \in {"g_find", "l_find"}]_vars

\* an update has returned success while the detail entry of its record,
\* cached before the call, is still there (its del failed), and a get
\* request has returned the stored record, not the cached one
C22_Witness ==
  \E p, q \in Procs :
    /\ pc[p] = "done" /\ loc[p].op = "update" /\ loc[p].status = OK
    /\ \E i \in loc[p].ids :
         /\ DetailKey(i) \in DOMAIN cache
         /\ cache[DetailKey(i)].at < loc[p].n
         /\ pc[q] = "done" /\ loc[q].op = "get" /\ loc[q].status = OK
         /\ loc[q].result = store[i]
         /\ loc[q].result # cache[DetailKey(i)].value

\* ============================================ claims on the steps of merge
\* text sub occurs in text s
Occurs(sub, s) ==
  \E i \in 1..(Len(s) + 1) :
    i + Len(sub) - 1 <= Len(s) /\ SubSeq(s, i, i + Len(sub) - 1) = sub

\* the stored document primary holds what the fold takes from the stored
\* document duplicate (the probability is the pre-save hook's, see C2)
HoldsDataOf(primary, duplicate) ==
  /\ ToSet(duplicate.tags) \subseteq ToSet(primary.tags)
  /\ DOMAIN duplicate.customFields \subseteq DOMAIN primary.customFields
  /\ Occurs(duplicate.notes, primary.notes)
  /\ kind = "lead" => primary.amount >= duplicate.amount

C24_RemergeGivesTheSameStore ==
  [][(pc[1] = "stopped" /\ pc[2] = "idle" /\ pc'[2] = "done") =>
       store' = DeleteMany(store, loc[1].duplicateIds)]_vars

\* C25: no list request reads the store between a merge's primary.save() and
\* its deleteMany: no list result holds both the primary with the merged
\* data and a record of duplicateIds, as the merge's read, update and delete
\* run in one transaction.
C25_NoReadInsideTheMerge ==
  [][\A p, q \in Procs :
       (pc[p] = "m_delete" /\ loc[p].primary # loc[p].primary0
          /\ pc[q] = "l_find" /\ pc'[q] = "l_set")
       => LET items == loc'[q].result.items
          IN ~ \E m, n \in 1..Len(items) :
                 /\ items[m].id = loc[p].primaryId
                 /\ items[m].doc = loc[p].primary
                 /\ items[n].id # loc[p].primaryId
                 /\ items[n].id \in ToSet(loc[p].duplicateIds)]_vars

\* ====================================== claims on probability and identity
\* C26: a lead created with an explicit probability is stored with that
\* probability whatever its stage, and an update that gives both a stage and
\* a probability stores the given probability, not the stage table's.
C26_ExplicitProbabilityKept ==
  \A i \in SeqProcs :
    (kind = "lead" /\ pc[i] = "inval") =>
      /\ (loc[i].op = "create" /\ loc[i].req.probability # 0) =>
            store[nextId - 1].probability = loc[i].req.probability
      /\ (loc[i].op = "update" /\ "stage" \in DOMAIN loc[i].req
            /\ "probability" \in DOMAIN loc[i].req) =>
            \A id \in loc[i].ids :
              store[id].probability = loc[i].req.probability

\* C27: with one call at a time and a store that starts without two leads
\* sharing an email or a phone, no sequence of create, update, delete and
\* merge calls stores two leads with the same email or two with the same
\* phone, updates of the email alone or of the phone alone included.
C27_EmailAndPhoneStayUnique ==
  kind = "lead" =>
    \A i, j \in DOMAIN store :
      i # j => (store[i].email # store[j].email
                  /\ store[i].phone # store[j].phone)

\* an update of the phone alone has been stored and a later call has been
\* rejected with Conflict while several leads are stored
C27_Witness ==
  /\ kind = "lead"
  /\ Cardinality(DOMAIN store) > 1
  /\ \E id \in DOMAIN store :
       store[id].phone = MaxId /\ store[id].email # MaxId
  /\ \E i, j \in SeqProcs :
       /\ i < j
       /\ CallOk(i, "update")
       /\ pc[j] = "done" /\ loc[j].op \in {"create", "update"}
       /\ loc[j].status = CONFLICT

\* ======================================================= claims on frames
\* C28: a mergeDuplicates call leaves every record whose id is neither
\* primaryId nor in duplicateIds as it was: stored before and after with the
\* same document, or absent before and after.
C28_MergeTouchesOnlyItsIds ==
  [][\A p \in Procs :
       (pc[p] = "idle" /\ pc'[p] = "done" /\ loc'[p].op = "merge") =>
         \A i \in Ids \ ({loc'[p].primaryId} \cup ToSet(loc'[p].duplicateIds)) :
           /\ (i \in DOMAIN store') = (i \in DOMAIN store)
           /\ i \in DOMAIN store => store'[i] = store[i]]_vars

\* a merge has changed the primary and removed a duplicate while a third
\* record is stored
C28_Witness ==
  \E p \in Procs :
    /\ MergeOk(p)
    /\ loc[p].primary # loc[p].primary0
    /\ \E n \in 1..Len(loc[p].duplicates) :
         loc[p].duplicates[n] # NULL /\ loc[p].duplicateIds[n] # loc[p].primaryId
    /\ (DOMAIN store) \ ({loc[p].primaryId} \cup ToSet(loc[p].duplicateIds)) # {}

C30_ChannelsAreTheSubscribedOnes ==
  (\A p \in Procs : Free(p)) =>
    channels = UNION {clients[c] : c \in DOMAIN clients}

====
